---- MODULE Spec2Model ----
(***************************************************************************)
(* jq-language-support: the definition parser (JQParser), the semantic     *)
(* token classifier and the completion provider of src/src/extension.ts.   *)
(* The file holds two versions of the extension: the first (lines 1-188)   *)
(* with the simple extent strategy and a single args list, the second      *)
(* (lines 189-481) with the indentation strategy and valueArgs/filterArgs. *)
(*                                                                         *)
(* A document is a sequence of one-character strings.  Offsets, line       *)
(* numbers and columns are zero-based as in the code; a TLA+ sequence is   *)
(* one-based, so the character at offset o of s is s[o + 1].               *)
(***************************************************************************)
EXTENDS Integers, Sequences, FiniteSets, TLC

LF == "\n"
CR == "\r"
TAB == "\t"
SP == " "

\* The characters \s matches and trim() strips (those the documents can hold).
WhiteSpace == {SP, TAB, CR, LF}

Lower == {"a", "b", "c", "d", "e", "f", "g", "h", "i", "j", "k", "l", "m",
          "n", "o", "p", "q", "r", "s", "t", "u", "v", "w", "x", "y", "z"}
Upper == {"A", "B", "C", "D", "E", "F", "G", "H", "I", "J", "K", "L", "M",
          "N", "O", "P", "Q", "R", "S", "T", "U", "V", "W", "X", "Y", "Z"}
Digit == {"0", "1", "2", "3", "4", "5", "6", "7", "8", "9"}

\* [a-zA-Z_] and [a-zA-Z0-9_]
IdentStart == Lower \cup Upper \cup {"_"}
IdentChar == IdentStart \cup Digit

\* The built-in names: those of the first version's list that the documents
\* below can spell, in the list's order (the second version imports its list
\* from builtins.json).
BUILTINS == <<<<"k", "e", "y", "s">>, <<"m", "a", "p">>, <<"h", "a", "s">>,
              <<"d", "e", "l">>, <<"a", "l", "l">>, <<"a", "n", "y">>>>

KwDef == <<"d", "e", "f">>

-----------------------------------------------------------------------------
(* String primitives of the host language, as the code uses them.          *)

Min(a, b) == IF a <= b THEN a ELSE b
Max(a, b) == IF a >= b THEN a ELSE b

\* The first one-based index >= i of s whose character is not in class
\* (Len(s) + 1 when there is none): where a greedy class* stops.
RECURSIVE SkipClass(_, _, _)
SkipClass(s, i, class) ==
    IF i > Len(s) \/ s[i] \notin class THEN i ELSE SkipClass(s, i + 1, class)

\* String.prototype.trimStart
TrimStart(s) == SubSeq(s, SkipClass(s, 1, WhiteSpace), Len(s))

\* The last one-based index <= i of s whose character is not white space.
RECURSIVE SkipBackWS(_, _)
SkipBackWS(s, i) ==
    IF i < 1 \/ s[i] \notin WhiteSpace THEN i ELSE SkipBackWS(s, i - 1)

\* String.prototype.trim
Trim(s) == LET t == TrimStart(s) IN SubSeq(t, 1, SkipBackWS(t, Len(t)))

\* String.prototype.startsWith, for a one-character prefix
StartsWith(s, ch) == Len(s) >= 1 /\ s[1] = ch

\* String.prototype.indexOf(ch, from): zero-based, -1 when absent.
RECURSIVE IndexOfFrom(_, _, _)
IndexOfFrom(s, ch, from) ==
    IF from >= Len(s) THEN -1
    ELSE IF s[from + 1] = ch THEN from
    ELSE IndexOfFrom(s, ch, from + 1)

IndexOf(s, ch, from) == IndexOfFrom(s, ch, Max(from, 0))

\* String.prototype.lastIndexOf(ch, from): the last index <= from (from is
\* clamped to 0..length), -1 when absent.
RECURSIVE LastIndexOfFrom(_, _, _)
LastIndexOfFrom(s, ch, from) ==
    IF from < 0 THEN -1
    ELSE IF from < Len(s) /\ s[from + 1] = ch THEN from
    ELSE LastIndexOfFrom(s, ch, from - 1)

LastIndexOf(s, ch, from) == LastIndexOfFrom(s, ch, Min(Max(from, 0), Len(s)))

\* String.prototype.substring(a, b), zero-based, b exclusive
Substring(s, a, b) ==
    LET lo == Min(Max(Min(a, b), 0), Len(s))
        hi == Min(Max(Max(a, b), 0), Len(s))
    IN  SubSeq(s, lo + 1, hi)

\* String.prototype.split(sep) for a one-character separator: the pieces
\* between the separators, the empty ones included ("".split(";") is [""]).
RECURSIVE SplitFrom(_, _, _, _)
SplitFrom(s, sep, i, start) ==
    IF i > Len(s) THEN <<SubSeq(s, start, Len(s))>>
    ELSE IF s[i] = sep
         THEN <<SubSeq(s, start, i - 1)>> \o SplitFrom(s, sep, i + 1, i + 1)
         ELSE SplitFrom(s, sep, i + 1, start)

Split(s, sep) == SplitFrom(s, sep, 1, 1)

\* text.split(/\r?\n/): a separator is a line feed together with a carriage
\* return right before it; a carriage return elsewhere stays in its line.
RECURSIVE SplitLinesFrom(_, _, _)
SplitLinesFrom(s, i, start) ==
    IF i > Len(s) THEN <<SubSeq(s, start, Len(s))>>
    ELSE IF s[i] = LF
         THEN <<SubSeq(s, start, i - 1)>> \o SplitLinesFrom(s, i + 1, i + 1)
    ELSE IF s[i] = CR /\ i < Len(s) /\ s[i + 1] = LF
         THEN <<SubSeq(s, start, i - 1)>> \o SplitLinesFrom(s, i + 2, i + 2)
    ELSE SplitLinesFrom(s, i + 1, start)

SplitLines(s) == SplitLinesFrom(s, 1, 1)

\* pieces.map(s => s.trim())
TrimAll(pieces) == [i \in 1..Len(pieces) |-> Trim(pieces[i])]

NonEmpty(s) == s /= <<>>
IsValueArg(a) == StartsWith(a, "$")
IsFilterArg(a) == ~StartsWith(a, "$")

-----------------------------------------------------------------------------
(* JQParser.parse, second version (indentation strategy).                  *)

\* \s*: at one-based position p of line
HeaderTail(line, p) ==
    LET r == SkipClass(line, p, WhiteSpace)
    IN  r <= Len(line) /\ line[r] = ":"

\* defRegex.exec(line) for
\*   /^(\s*)def\s+([a-zA-Z_][a-zA-Z0-9_]*)(?:\(([^)]*)\))?\s*:/
\* Every greedy quantifier is followed by a character outside its class, so
\* giving characters back never helps and the scan below is the whole search;
\* the optional group is tried first and, when it fails, the match without it.
DefRegexExec(line) ==
    LET n == Len(line)
        p1 == SkipClass(line, 1, WhiteSpace)
        kw == p1 + 2 <= n /\ SubSeq(line, p1, p1 + 2) = KwDef
        p2 == p1 + 3
        p3 == SkipClass(line, p2, WhiteSpace)
        idOk == kw /\ p3 > p2 /\ p3 <= n /\ line[p3] \in IdentStart
        p4 == SkipClass(line, p3 + 1, IdentChar)
        open == p4 <= n /\ line[p4] = "("
        close == IndexOf(line, ")", p4)
        withArgs == idOk /\ open /\ close >= 0 /\ HeaderTail(line, close + 2)
        noArgs == idOk /\ HeaderTail(line, p4)
    IN  IF withArgs
        THEN [matched |-> TRUE, indent |-> SubSeq(line, 1, p1 - 1),
              name |-> SubSeq(line, p3, p4 - 1),
              args |-> SubSeq(line, p4 + 1, close)]
        ELSE IF noArgs
        THEN [matched |-> TRUE, indent |-> SubSeq(line, 1, p1 - 1),
              name |-> SubSeq(line, p3, p4 - 1), args |-> <<>>]
        ELSE [matched |-> FALSE, indent |-> <<>>, name |-> <<>>, args |-> <<>>]

\* ParseArgs without the filter: the empty pieces stay.
ParseArgsKeepEmpty(rawArgsStr) == TrimAll(Split(rawArgsStr, ";"))

\* rawArgsStr.split(';').map(s => s.trim()).filter(s => s)
ParseArgs(rawArgsStr) == SelectSeq(TrimAll(Split(rawArgsStr, ";")), NonEmpty)

\* First pass: one entry per line the header pattern matches, from line i on.
RECURSIVE CollectDefs(_, _)
CollectDefs(lines, i) ==
    IF i >= Len(lines) THEN <<>>
    ELSE LET match == DefRegexExec(lines[i + 1])
             args == ParseArgs(match.args)
         IN  (IF match.matched
              THEN <<[name |-> match.name,
                      valueArgs |-> SelectSeq(args, IsValueArg),
                      filterArgs |-> SelectSeq(args, IsFilterArg),
                      startLine |-> i,
                      indent |-> Len(match.indent)]>>
              ELSE <<>>)
             \o CollectDefs(lines, i + 1)

\* lines[j].length - lines[j].trimStart().length
LineIndent(raw) == Len(raw) - Len(TrimStart(raw))

\* FindEndLine with < for <=: a line indented like the header no longer ends
\* the definition.
RECURSIVE FindEndLineStrict(_, _, _)
FindEndLineStrict(lines, j, indent) ==
    IF j >= Len(lines) THEN Len(lines) - 1
    ELSE LET line == Trim(lines[j + 1])
         IN  IF line = <<>> \/ StartsWith(line, "#")
             THEN FindEndLineStrict(lines, j + 1, indent)
             ELSE IF LineIndent(lines[j + 1]) < indent
             THEN j - 1
             ELSE FindEndLineStrict(lines, j + 1, indent)

\* FindEndLine with = for <=: only a line indented exactly like the header
\* ends the definition.
RECURSIVE FindEndLineEqual(_, _, _)
FindEndLineEqual(lines, j, indent) ==
    IF j >= Len(lines) THEN Len(lines) - 1
    ELSE LET line == Trim(lines[j + 1])
         IN  IF line = <<>> \/ StartsWith(line, "#")
             THEN FindEndLineEqual(lines, j + 1, indent)
             ELSE IF LineIndent(lines[j + 1]) = indent
             THEN j - 1
             ELSE FindEndLineEqual(lines, j + 1, indent)

\* Second pass, the inner loop from line j on: the end line of a definition
\* with the given indentation.
RECURSIVE FindEndLine(_, _, _)
FindEndLine(lines, j, indent) ==
    IF j >= Len(lines) THEN Len(lines) - 1
    ELSE LET line == Trim(lines[j + 1])
         IN  IF line = <<>> \/ StartsWith(line, "#")
             THEN FindEndLine(lines, j + 1, indent)
             ELSE IF LineIndent(lines[j + 1]) <= indent
             THEN j - 1
             ELSE FindEndLine(lines, j + 1, indent)

ToFunction(lines, currentDef) ==
    [name |-> currentDef.name,
     valueArgs |-> currentDef.valueArgs,
     filterArgs |-> currentDef.filterArgs,
     startLine |-> currentDef.startLine,
     endLine |-> FindEndLine(lines, currentDef.startLine + 1, currentDef.indent)]

JQParser_parse(text) ==
    LET lines == SplitLines(text)
        defs == CollectDefs(lines, 0)
    IN  [i \in 1..Len(defs) |-> ToFunction(lines, defs[i])]

-----------------------------------------------------------------------------
(* JQParser.parse, first version (simple strategy).                        *)

\* /def\s+([a-zA-Z0-9_]+)(?:\(([^)]+)\))?\s*:/ tried at one-based position p
SimpleMatchAt(line, p) ==
    LET n == Len(line)
        kw == p + 2 <= n /\ SubSeq(line, p, p + 2) = KwDef
        p2 == p + 3
        p3 == SkipClass(line, p2, WhiteSpace)
        p4 == SkipClass(line, p3, IdentChar)
        idOk == kw /\ p3 > p2 /\ p4 > p3
        open == p4 <= n /\ line[p4] = "("
        close == IndexOf(line, ")", p4)
        withArgs == idOk /\ open /\ close >= p4 + 1 /\ HeaderTail(line, close + 2)
        noArgs == idOk /\ HeaderTail(line, p4)
    IN  IF withArgs
        THEN [matched |-> TRUE, name |-> SubSeq(line, p3, p4 - 1),
              hasArgs |-> TRUE, args |-> SubSeq(line, p4 + 1, close)]
        ELSE IF noArgs
        THEN [matched |-> TRUE, name |-> SubSeq(line, p3, p4 - 1),
              hasArgs |-> FALSE, args |-> <<>>]
        ELSE [matched |-> FALSE, name |-> <<>>, hasArgs |-> FALSE, args |-> <<>>]

\* defRegex.exec(line): the pattern is not anchored, so the leftmost position
\* where it matches wins.
RECURSIVE SimpleRegexExecFrom(_, _)
SimpleRegexExecFrom(line, p) ==
    IF p > Len(line)
    THEN [matched |-> FALSE, name |-> <<>>, hasArgs |-> FALSE, args |-> <<>>]
    ELSE LET m == SimpleMatchAt(line, p)
         IN  IF m.matched THEN m ELSE SimpleRegexExecFrom(line, p + 1)

SimpleRegexExec(line) == SimpleRegexExecFrom(line, 1)

\* SimpleDefTest with the header pattern for the test: only a line that yields a
\* record ends the definition before it.
SimpleDefTestAsHeader(line) == SimpleRegexExec(line).matched

\* /^\s*def\s+/.test(line)
SimpleDefTest(line) ==
    LET n == Len(line)
        p1 == SkipClass(line, 1, WhiteSpace)
    IN  /\ p1 + 2 <= n
        /\ SubSeq(line, p1, p1 + 2) = KwDef
        /\ p1 + 3 <= n
        /\ line[p1 + 3] \in WhiteSpace

\* The inner loop from line j on.
RECURSIVE SimpleFindEndLine(_, _)
SimpleFindEndLine(lines, j) ==
    IF j >= Len(lines) THEN Len(lines) - 1
    ELSE IF SimpleDefTest(lines[j + 1]) THEN j - 1
    ELSE SimpleFindEndLine(lines, j + 1)

\* SimpleEndLine with the loop started on the header line itself.
SimpleEndLineFromHeader(lines, i) == SimpleFindEndLine(lines, i)

\* let endLine = lines.length - 1; for (let j = i + 1; ...)
SimpleEndLine(lines, i) == SimpleFindEndLine(lines, i + 1)

RECURSIVE SimpleParseFrom(_, _)
SimpleParseFrom(lines, i) ==
    IF i >= Len(lines) THEN <<>>
    ELSE LET match == SimpleRegexExec(lines[i + 1])
         IN  (IF match.matched
              THEN <<[name |-> match.name,
                      args |-> IF match.hasArgs /\ match.args /= <<>>
                               THEN TrimAll(Split(match.args, ";"))
                               ELSE <<>>,
                      startLine |-> i,
                      endLine |-> SimpleEndLine(lines, i)]>>
              ELSE <<>>)
             \o SimpleParseFrom(lines, i + 1)

JQParserSimple_parse(text) == SimpleParseFrom(SplitLines(text), 0)

-----------------------------------------------------------------------------
(* The host editor's document: positions and ranges.                       *)

\* document.positionAt(offset): the line is the number of line feeds before
\* the offset, the character the distance from the start of that line.
PositionAt(text, offset) ==
    LET before == {k \in 1..offset : text[k] = LF}
        lineStart == IF before = {} THEN 0
                     ELSE CHOOSE k \in before : \A m \in before : m <= k
    IN  [line |-> Cardinality(before), character |-> offset - lineStart]

\* The offset of the first character of a line of the document.
RECURSIVE LineStartOffset(_, _)
LineStartOffset(text, line) ==
    IF line = 0 THEN 0
    ELSE IndexOf(text, LF, LineStartOffset(text, line - 1)) + 1

\* position.translate(0, delta): the host's Position rejects a negative
\* character ("illegal argument: character must be non-negative") and throws.
Translate(position, delta) ==
    IF position.character + delta < 0
    THEN [threw |-> TRUE, line |-> position.line, character |-> 0]
    ELSE [threw |-> FALSE, line |-> position.line,
          character |-> position.character + delta]

\* document.getText(new Range(from, to)) for a range within one line
GetTextRange(text, from, to) ==
    LET start == LineStartOffset(text, from.line)
    IN  Substring(text, start + from.character, start + to.character)

-----------------------------------------------------------------------------
(* JQParser.isInComment and the semantic tokens provider (second version). *)

\* CommentTest without the leading \s*: an indented comment is not one.
CommentTestNoIndent(line) == Len(line) >= 1 /\ line[1] = "#"

\* /^\s*#/.test(line)
CommentTest(line) ==
    LET r == SkipClass(line, 1, WhiteSpace)
    IN  r <= Len(line) /\ line[r] = "#"

JQParser_isInComment(text, offset) ==
    LET lineStart == LastIndexOf(text, LF, offset - 1) + 1
        next == IndexOf(text, LF, lineStart + 1)
        line == Substring(text, lineStart, IF next = -1 THEN Len(text) ELSE next)
    IN  CommentTest(line)

\* The matches of /([a-zA-Z_][a-zA-Z0-9_]*)/g from one-based position i on,
\* each with its word and its zero-based offset.
RECURSIVE TokensFrom(_, _)
TokensFrom(text, i) ==
    IF i > Len(text) THEN <<>>
    ELSE IF text[i] \in IdentStart
    THEN LET e == SkipClass(text, i + 1, IdentChar)
         IN  <<[word |-> SubSeq(text, i, e - 1), offset |-> i - 1]>>
             \o TokensFrom(text, e)
    ELSE TokensFrom(text, i + 1)

InSeq(x, seq) == \E i \in 1..Len(seq) : seq[i] = x

\* arg.startsWith('$') ? arg.substring(1) : arg
ParamName(arg) == IF StartsWith(arg, "$") THEN Tail(arg) ELSE arg

InRange(f, line) == line >= f.startLine /\ line <= f.endLine

\* functions.find(f => line >= f.startLine && line <= f.endLine): the index of
\* the first record whose range holds the line, from index i on; 0 stands for
\* undefined.
RECURSIVE FindFrom(_, _, _)
FindFrom(functions, line, i) ==
    IF i > Len(functions) THEN 0
    ELSE IF InRange(functions[i], line) THEN i
    ELSE FindFrom(functions, line, i + 1)

Find(functions, line) == FindFrom(functions, line, 1)

getContextFunction(userFunctions, line) == Find(userFunctions, line)

\* AllParams without stripping the sigil of the value parameters.
AllParamsWithSigil(userFunctions) ==
    UNION {{userFunctions[i].valueArgs[k] :
                k \in 1..Len(userFunctions[i].valueArgs)}
           \cup {userFunctions[i].filterArgs[k] :
                k \in 1..Len(userFunctions[i].filterArgs)} :
           i \in 1..Len(userFunctions)}

\* The set allParams: every parameter name of every record.
AllParams(userFunctions) ==
    UNION {{ParamName(userFunctions[i].valueArgs[k]) :
                k \in 1..Len(userFunctions[i].valueArgs)}
           \cup {userFunctions[i].filterArgs[k] :
                k \in 1..Len(userFunctions[i].filterArgs)} :
           i \in 1..Len(userFunctions)}

\* IsParamOf comparing the value parameters with their sigil.
IsParamOfVerbatim(f, word) == InSeq(word, f.valueArgs) \/ InSeq(word, f.filterArgs)

\* contextFunc.valueArgs.some(...) || contextFunc.filterArgs.some(...)
IsParamOf(f, word) ==
    \/ \E k \in 1..Len(f.valueArgs) : ParamName(f.valueArgs[k]) = word
    \/ InSeq(word, f.filterArgs)

Span(position, tok, type, rule) ==
    <<[line |-> position.line, character |-> position.character,
       length |-> Len(tok.word), tokenType |-> type, rule |-> rule,
       offset |-> tok.offset]>>

\* What the loop body pushes for one token: no span or one.  A span carries
\* its range (line, character, length) and token type; rule records which of
\* the three priorities pushed it and offset the token it was pushed for.
ClassifyAt(text, userFunctions, tok, position, contextFunc) ==
    IF JQParser_isInComment(text, tok.offset) THEN <<>>
    ELSE IF contextFunc > 0 /\ IsParamOf(userFunctions[contextFunc], tok.word)
    THEN Span(position, tok, "parameter", 1)
    ELSE IF \E i \in 1..Len(userFunctions) : userFunctions[i].name = tok.word
    THEN Span(position, tok, "function", 2)
    ELSE IF InSeq(tok.word, BUILTINS) /\ tok.word \notin AllParams(userFunctions)
    THEN Span(position, tok, "function", 3)
    ELSE <<>>

ClassifyPositioned(text, userFunctions, tok, position) ==
    ClassifyAt(text, userFunctions, tok, position,
               getContextFunction(userFunctions, position.line))

ClassifyToken(text, userFunctions, tok) ==
    ClassifyPositioned(text, userFunctions, tok, PositionAt(text, tok.offset))

RECURSIVE ClassifyAll(_, _, _, _)
ClassifyAll(text, userFunctions, toks, i) ==
    IF i > Len(toks) THEN <<>>
    ELSE ClassifyToken(text, userFunctions, toks[i])
         \o ClassifyAll(text, userFunctions, toks, i + 1)

provideDocumentSemanticTokens(text) ==
    ClassifyAll(text, JQParser_parse(text), TokensFrom(text, 1), 1)

-----------------------------------------------------------------------------
(* The completion provider.                                                *)

DigitChars == <<"0", "1", "2", "3", "4", "5", "6", "7", "8", "9">>

\* Number to string, as a template literal writes it.
RECURSIVE NumberToString(_)
NumberToString(n) ==
    IF n < 10 THEN <<DigitChars[n + 1]>>
    ELSE NumberToString(n \div 10) \o <<DigitChars[(n % 10) + 1]>>

\* names.map((arg, idx) => placeholder idx + 1 of arg).join('; ') from idx on
RECURSIVE ArgsSnippet(_, _)
ArgsSnippet(names, idx) ==
    IF idx > Len(names) THEN <<>>
    ELSE (IF idx > 1 THEN <<";", " ">> ELSE <<>>)
         \o <<"$", "{">> \o NumberToString(idx) \o <<":">> \o names[idx] \o <<"}">>
         \o ArgsSnippet(names, idx + 1)

PlainText(value) == [snippet |-> FALSE, value |-> value]
SnippetString(value) == [snippet |-> TRUE, value |-> value]

\* position.character > 0 ? document.getText(range) : '', the range being
\* new Range(position.translate(0, -1), position)
CharBeforeCursor(text, position) ==
    IF position.character > 0
    THEN GetTextRange(text, Translate(position, -1), position) ELSE <<>>

\* What a value parameter's item inserts: with the sigil typed already, the
\* name without it.
InsertName(arg, isTriggeredByDollar) ==
    IF isTriggeredByDollar THEN ParamName(arg)
    ELSE IF StartsWith(arg, "$") THEN arg ELSE <<"$">> \o arg

\* The item of one value parameter (second version).
ValueItem(text, position, funcName, arg) ==
    [label |-> IF StartsWith(arg, "$") THEN arg ELSE <<"$">> \o arg,
     kind |-> "Variable",
     detail |-> <<"Value parameter of", funcName>>, sortText |-> "0000",
     insertText |-> PlainText(InsertName(arg, CharBeforeCursor(text, position) = <<"$">>)),
     filterText |-> IF CharBeforeCursor(text, position) = <<"$">>
                    THEN ParamName(arg) ELSE <<>>]

FilterItem(funcName, arg) ==
    [label |-> arg, kind |-> "Variable",
     detail |-> <<"Filter parameter of", funcName>>, sortText |-> "0001",
     insertText |-> PlainText(arg), filterText |-> <<>>]

FunctionItem(f) ==
    LET allArgs == f.valueArgs \o f.filterArgs
    IN  [label |-> f.name, kind |-> "Function",
         detail |-> <<"User defined function">>, sortText |-> "",
         insertText |-> IF Len(allArgs) > 0
                        THEN SnippetString(f.name \o <<"(">>
                               \o ArgsSnippet([k \in 1..Len(allArgs) |-> ParamName(allArgs[k])], 1)
                               \o <<")">>)
                        ELSE PlainText(f.name),
         filterText |-> <<>>]

BuiltinItem(b) ==
    [label |-> b, kind |-> "Function", detail |-> <<>>, sortText |-> "",
     insertText |-> PlainText(<<>>), filterText |-> <<>>]

\* currentFunc.valueArgs.forEach(...), currentFunc.filterArgs.forEach(...),
\* the push of each kept record and BUILTINS.forEach(...)
ValueItems(text, position, f) ==
    [k \in 1..Len(f.valueArgs) |-> ValueItem(text, position, f.name, f.valueArgs[k])]
FilterItems(f) ==
    [k \in 1..Len(f.filterArgs) |-> FilterItem(f.name, f.filterArgs[k])]
FunctionItems(kept) == [k \in 1..Len(kept) |-> FunctionItem(kept[k])]
BuiltinItems == [k \in 1..Len(BUILTINS) |-> BuiltinItem(BUILTINS[k])]

\* functions.forEach(f => if (f.name !== currentFunc?.name) push): the records
\* kept; cur is the index Find gives (0: currentFunc is undefined).
OtherFunctions(functions, cur) ==
    LET Keep(f) == cur = 0 \/ f.name /= functions[cur].name
    IN  SelectSeq(functions, Keep)

\* The list a request of the second version builds from the parsed records.
\* position.translate(0, -1) runs inside the loop over the value parameters,
\* before the test of position.character: with a value parameter at column 0
\* the request throws.
CompletionItems(text, position, functions, cur) ==
    IF cur > 0 /\ Len(functions[cur].valueArgs) > 0 /\ Translate(position, -1).threw
    THEN [error |-> TRUE, items |-> <<>>]
    ELSE [error |-> FALSE,
          items |-> (IF cur > 0
                     THEN ValueItems(text, position, functions[cur])
                          \o FilterItems(functions[cur])
                     ELSE <<>>)
                    \o FunctionItems(OtherFunctions(functions, cur))
                    \o BuiltinItems]

CompletionFor(text, position, functions) ==
    CompletionItems(text, position, functions, Find(functions, position.line))

provideCompletionItems(text, position) ==
    CompletionFor(text, position, JQParser_parse(text))

\* The item of one parameter (first version).
SimpleParamItem(funcName, arg, isTriggeredByDollar) ==
    LET fullVarName == IF StartsWith(arg, "$") THEN arg ELSE <<"$">> \o arg
    IN  [label |-> fullVarName, kind |-> "Variable",
         detail |-> <<"Parameter of", funcName>>, sortText |-> "0000",
         insertText |-> PlainText(IF isTriggeredByDollar THEN Tail(fullVarName)
                                  ELSE fullVarName),
         filterText |-> IF isTriggeredByDollar THEN Tail(fullVarName) ELSE <<>>]

SimpleFunctionItem(f) ==
    [label |-> f.name, kind |-> "Function",
     detail |-> <<"User defined function">>, sortText |-> "",
     insertText |-> IF Len(f.args) > 0
                    THEN SnippetString(f.name \o <<"(">>
                           \o ArgsSnippet(f.args, 1) \o <<")">>)
                    ELSE PlainText(f.name),
     filterText |-> <<>>]

SimpleParamItems(f, isTriggeredByDollar) ==
    [k \in 1..Len(f.args) |-> SimpleParamItem(f.name, f.args[k], isTriggeredByDollar)]
SimpleFunctionItems(kept) == [k \in 1..Len(kept) |-> SimpleFunctionItem(kept[k])]

\* The list a request of the first version builds from the parsed records.
\* position.translate(0, -1) runs first, for every request.
SimpleCompletionItems(position, functions, cur, isTriggeredByDollar) ==
    IF Translate(position, -1).threw
    THEN [error |-> TRUE, items |-> <<>>]
    ELSE [error |-> FALSE,
          items |-> (IF cur > 0
                     THEN SimpleParamItems(functions[cur], isTriggeredByDollar)
                     ELSE <<>>)
                    \o SimpleFunctionItems(OtherFunctions(functions, cur))
                    \o BuiltinItems]

SimpleCompletionFor(text, position, functions) ==
    SimpleCompletionItems(position, functions, Find(functions, position.line),
                          CharBeforeCursor(text, position) = <<"$">>)

provideCompletionItemsSimple(text, position) ==
    SimpleCompletionFor(text, position, JQParserSimple_parse(text))

-----------------------------------------------------------------------------
(* The state machine: a document being typed line by line, and the host's  *)
(* requests against it.  The host is single-threaded: it types, or issues  *)
(* one request and takes its response.  Every request recomputes           *)
(* everything from the text; response holds what the request returned      *)
(* until the host discards it.                                             *)

VARIABLES text, eol, typed, response
vars == <<text, eol, typed, response>>

MaxLines == 3
MaxIndent == 1
MaxCol == 1

\* The lines typed into a document under Spec, without their indentation.
ParseBodies ==
    {<<"d", "e", "f", " ", "f", ":">>,   \* def f:
     <<"d", "e", "f", " ", "g", "(", "b", ";", "$", "a", ";", " ", ";", "$", "c", ")", ":">>,   \* def g(b;$a; ;$c):
     <<"d", "e", "f", " ", "f", "(", "a", ":">>,   \* def f(a:
     <<"#", " ", "d", "e", "f", " ", "g", ":">>,   \* # def g:
     <<"x">>,   \* x
     <<>>}   \* (blank)

\* The lines typed under SpecClassify.
ClassifyBodies ==
    {<<"d", "e", "f", " ", "f", "(", "$", "m", "a", "p", ")", ":">>,   \* def f($map):
     <<"d", "e", "f", " ", "g", "(", "a", "l", "l", ")", ":">>,   \* def g(all):
     <<"#", " ", "m", "a", "p">>,   \* # map
     <<"m", "a", "p", " ", "#", " ", "a", "l", "l">>}  \* map # all

\* The lines typed under SpecComplete.
CompleteBodies ==
    {<<"d", "e", "f", " ", "f", "(", "$", "a", ";", " ", "b", ")", ":">>,   \* def f($a; b):
     <<"d", "e", "f", " ", "g", "(", "c", ")", ":">>,   \* def g(c):
     <<"$">>}  \* $

Spaces(n) == [i \in 1..n |-> SP]

NoResponse == [request |-> "none", position |-> <<>>, error |-> FALSE, value |-> <<>>]

Init ==
    /\ text = <<>>
    /\ eol \in {<<LF>>, <<CR, LF>>}
    /\ typed = 0
    /\ response = NoResponse

\* The user types one more line: an indentation and one of the bodies.
TypeLine(bodies) ==
    /\ response = NoResponse
    /\ typed < MaxLines
    /\ \E ind \in 0..MaxIndent, body \in bodies :
          text' = text \o (IF typed = 0 THEN <<>> ELSE eol) \o Spaces(ind) \o body
    /\ typed' = typed + 1
    /\ UNCHANGED <<eol, response>>

Respond(request, position, error, value) ==
    /\ response = NoResponse
    /\ response' = [request |-> request, position |-> position,
                    error |-> error, value |-> value]
    /\ UNCHANGED <<text, eol, typed>>

Parse == Respond("parse", <<>>, FALSE, JQParser_parse(text))

ParseSimple == Respond("parseSimple", <<>>, FALSE, JQParserSimple_parse(text))

SemanticTokens ==
    Respond("semanticTokens", <<>>, FALSE, provideDocumentSemanticTokens(text))

\* The cursor positions of a request: any line of the document, a column
\* within the line and within MaxCol.
Positions ==
    {p \in [line : 0..(Len(SplitLines(text)) - 1), character : 0..MaxCol] :
        p.character <= Len(SplitLines(text)[p.line + 1])}

Completion ==
    \E position \in Positions :
        LET r == provideCompletionItems(text, position)
        IN  Respond("completion", position, r.error, r.items)

CompletionSimple ==
    \E position \in Positions :
        LET r == provideCompletionItemsSimple(text, position)
        IN  Respond("completionSimple", position, r.error, r.items)

\* The host has used the response; nothing of it is kept.
Discard ==
    /\ response /= NoResponse
    /\ response' = NoResponse
    /\ UNCHANGED <<text, eol, typed>>

TypeParse == TypeLine(ParseBodies)
TypeClassify == TypeLine(ClassifyBodies)
TypeComplete == TypeLine(CompleteBodies)

Next == TypeParse \/ Parse \/ ParseSimple \/ Discard
Spec == Init /\ [][Next]_vars

NextClassify == TypeClassify \/ SemanticTokens \/ Discard
SpecClassify == Init /\ [][NextClassify]_vars

NextComplete == TypeComplete \/ Completion \/ CompletionSimple \/ Discard
SpecComplete == Init /\ [][NextComplete]_vars

-----------------------------------------------------------------------------
(* What the properties below speak of, stated on the text itself.          *)

\* The zero-based offsets of the line feeds of the document, and its lines:
\* line i runs from after line feed i to before line feed i + 1, without a
\* carriage return that ends it before a line feed.
Feeds == {k \in 0..(Len(text) - 1) : text[k + 1] = LF}
NumLines == Cardinality(Feeds) + 1
LineBegin(i) ==
    IF i = 0 THEN 0
    ELSE 1 + CHOOSE k \in Feeds : Cardinality({m \in Feeds : m < k}) = i - 1
LineStop(i) ==
    IF i = NumLines - 1 THEN Len(text)
    ELSE LET k == CHOOSE k \in Feeds : Cardinality({m \in Feeds : m < k}) = i
         IN  IF k > LineBegin(i) /\ text[k] = CR THEN k - 1 ELSE k
DocLine(i) == SubSeq(text, LineBegin(i) + 1, LineStop(i))

\* The length of the leading white space of a line.
LeadingWS(line) ==
    Cardinality({k \in 1..Len(line) : \A m \in 1..k : line[m] \in WhiteSpace})
IsBlankLine(line) == LeadingWS(line) = Len(line)
IsCommentLine(line) ==
    LeadingWS(line) < Len(line) /\ line[LeadingWS(line) + 1] = "#"

SetMin(S) == CHOOSE x \in S : \A y \in S : x <= y

\* The ways a line reads as a header: <<i, k, m, q>> with white space up to
\* i, "def" after it, white space up to k, an identifier up to m, and either
\* no argument list (q = 0) or one that closes at q, then white space and ":".
ColonAfter(line, p) ==
    \E c \in (p + 1)..Len(line) :
        line[c] = ":" /\ \A x \in (p + 1)..(c - 1) : line[x] \in WhiteSpace
HeaderReadings(line) ==
    LET n == Len(line)
        Is == {i \in 0..n : /\ \A x \in 1..i : line[x] \in WhiteSpace
                            /\ i + 3 <= n
                            /\ SubSeq(line, i + 1, i + 3) = KwDef}
        Ks(i) == {k \in (i + 4)..n : \A x \in (i + 4)..k : line[x] \in WhiteSpace}
        Ms(k) == {m \in (k + 1)..n : /\ line[k + 1] \in IdentStart
                                     /\ \A x \in (k + 2)..m : line[x] \in IdentChar}
        Qs(m) == {q \in {0} : ColonAfter(line, m)}
                 \cup {q \in (m + 2)..n : /\ line[m + 1] = "("
                                          /\ line[q] = ")"
                                          /\ \A x \in (m + 2)..(q - 1) : line[x] /= ")"
                                          /\ ColonAfter(line, q)}
    IN  UNION {UNION {UNION {{<<i, k, m, q>> : q \in Qs(m)} : m \in Ms(k)}
                      : k \in Ks(i)} : i \in Is}
IsHeader(line) == HeaderReadings(line) /= {}

\* The pieces of an argument list between its semicolons, each without the
\* white space around it.
Stripped(s) ==
    LET ink == {x \in 1..Len(s) : s[x] \notin WhiteSpace}
    IN  IF ink = {} THEN <<>>
        ELSE SubSeq(s, SetMin(ink), CHOOSE x \in ink : \A y \in ink : y <= x)
Pieces(raw) ==
    LET semis == {x \in 1..Len(raw) : raw[x] = ";"}
        From(j) == IF j = 1 THEN 1
                   ELSE 1 + CHOOSE x \in semis : Cardinality({y \in semis : y < x}) = j - 2
        To(j) == IF j = Cardinality(semis) + 1 THEN Len(raw)
                 ELSE (CHOOSE x \in semis : Cardinality({y \in semis : y < x}) = j - 1) - 1
    IN  [j \in 1..(Cardinality(semis) + 1) |-> Stripped(SubSeq(raw, From(j), To(j)))]
HasSigil(a) == a /= <<>> /\ a[1] = "$"
NoSigil(a) == a /= <<>> /\ a[1] /= "$"

-----------------------------------------------------------------------------
(* The parser's claims, checked under Spec.                                *)

Parsed == response.request = "parse"
ParsedSimple == response.request = "parseSimple"
Records == response.value
RecordIndices == 1..Len(response.value)

\* The lines after line s that end a definition of indentation n: neither
\* blank nor a comment, indented no deeper than n.
Terminators(s, n) ==
    {j \in (s + 1)..(NumLines - 1) :
        /\ ~IsBlankLine(DocLine(j))
        /\ ~IsCommentLine(DocLine(j))
        /\ LeadingWS(DocLine(j)) <= n}

ExpectedEndLine(s) ==
    LET T == Terminators(s, LeadingWS(DocLine(s)))
    IN  IF T = {} THEN NumLines - 1 ELSE SetMin(T) - 1

\* C1: under the indentation strategy a record that starts at line s, whose
\* header is indented by N, ends on the line before the first later line that
\* is neither blank nor a comment and is indented by at most N, and on the
\* last line of the document when there is no such line.
C1_IndentationExtent ==
    Parsed => \A r \in RecordIndices :
                 Records[r].endLine = ExpectedEndLine(Records[r].startLine)

\* A record whose extent runs over a blank or comment line indented no deeper
\* than its header and stops before a later line.
C1_Witness ==
    /\ Parsed
    /\ \E r \in RecordIndices :
          /\ Records[r].endLine < NumLines - 1
          /\ \E j \in (Records[r].startLine + 1)..Records[r].endLine :
                /\ IsBlankLine(DocLine(j)) \/ IsCommentLine(DocLine(j))
                /\ LeadingWS(DocLine(j)) <= LeadingWS(DocLine(Records[r].startLine))

ExpectedPieces(line) ==
    LET h == CHOOSE h \in HeaderReadings(line) : TRUE
    IN  IF h[4] = 0 THEN <<>> ELSE Pieces(SubSeq(line, h[3] + 2, h[4] - 1))

ExpectedName(line) ==
    LET h == CHOOSE h \in HeaderReadings(line) : TRUE
    IN  SubSeq(line, h[2] + 1, h[3])

\* C2: parse returns one record for each line that reads as a header and none
\* for any other line, in increasing startLine order; a record's name is the
\* header's identifier, its valueArgs the trimmed non-empty pieces of the
\* argument list that begin with "$", its filterArgs the other trimmed
\* non-empty pieces, both in source order.
C2_OneRecordPerHeader ==
    Parsed =>
        /\ \A r \in RecordIndices : Records[r].startLine \in 0..(NumLines - 1)
        /\ \A l \in 0..(NumLines - 1) :
              Cardinality({r \in RecordIndices : Records[r].startLine = l})
                  = IF IsHeader(DocLine(l)) THEN 1 ELSE 0
        /\ \A r \in RecordIndices :
              r < Len(Records) => Records[r].startLine < Records[r + 1].startLine
        /\ \A r \in RecordIndices :
              LET line == DocLine(Records[r].startLine)
              IN  /\ Records[r].name = ExpectedName(line)
                  /\ Records[r].valueArgs = SelectSeq(ExpectedPieces(line), HasSigil)
                  /\ Records[r].filterArgs = SelectSeq(ExpectedPieces(line), NoSigil)

\* A header inside another definition's extent, with two value parameters
\* around a filter parameter and an empty piece dropped, next to a line that
\* is no header.
C2_Witness ==
    /\ Parsed
    /\ \E a, b \in RecordIndices :
          /\ Records[a].startLine < Records[b].startLine
          /\ Records[b].startLine <= Records[a].endLine
          /\ Len(Records[b].valueArgs) = 2
          /\ Len(Records[b].filterArgs) = 1
    /\ \E l \in 0..(NumLines - 1) : ~IsHeader(DocLine(l)) /\ ~IsBlankLine(DocLine(l))

\* C3: every record of either version of parse has
\* 0 <= startLine <= endLine <= number of lines - 1.
C3_RangeWithinDocument ==
    (Parsed \/ ParsedSimple) =>
        \A r \in RecordIndices :
            /\ 0 <= Records[r].startLine
            /\ Records[r].startLine <= Records[r].endLine
            /\ Records[r].endLine <= NumLines - 1

\* A record of the first version that is not on the first line and whose
\* extent is its header line alone, the next line ending it.
C3_Witness ==
    /\ ParsedSimple
    /\ \E r \in RecordIndices :
          /\ Records[r].startLine > 0
          /\ Records[r].startLine = Records[r].endLine
          /\ Records[r].endLine < NumLines - 1

\* The lines the first version's extent loop stops at: white space, "def",
\* white space.
StartsDef(line) ==
    /\ LeadingWS(line) + 4 <= Len(line)
    /\ SubSeq(line, LeadingWS(line) + 1, LeadingWS(line) + 3) = KwDef
    /\ line[LeadingWS(line) + 4] \in WhiteSpace

EndBefore(H) == IF H = {} THEN NumLines - 1 ELSE SetMin(H) - 1

Contains(f, line) == f.startLine <= line /\ line <= f.endLine

\* C10: under the indentation strategy, of two records the later one starts
\* after the earlier one's end or ends within it; so the first record in list
\* order whose range holds a line holds every record whose range holds it.
C10_Laminar ==
    Parsed =>
        /\ \A a, b \in RecordIndices :
              Records[a].startLine < Records[b].startLine
                  => \/ Records[b].startLine > Records[a].endLine
                     \/ Records[b].endLine <= Records[a].endLine
        /\ \A l \in 0..(NumLines - 1) :
              LET first == Find(Records, l)
              IN  \A b \in RecordIndices :
                      Contains(Records[b], l)
                          => /\ first > 0
                             /\ Records[first].startLine <= Records[b].startLine
                             /\ Records[b].endLine <= Records[first].endLine

\* A record wholly inside another that goes on after it, and a record that
\* starts after another's end.
C10_Witness ==
    /\ Parsed
    /\ \E a, b \in RecordIndices :
          /\ Records[a].startLine < Records[b].startLine
          /\ Records[b].endLine < Records[a].endLine
    /\ \E a, b \in RecordIndices : Records[a].endLine < Records[b].startLine

-----------------------------------------------------------------------------
(* The classifier's claims, checked under SpecClassify.                    *)

Tokenized == response.request = "semanticTokens"
Spans == response.value

\* The line of the token at an offset, and whether it is a comment line.
TokenLine(offset) == Cardinality({k \in Feeds : k < offset})
OnCommentLine(offset) == IsCommentLine(DocLine(TokenLine(offset)))

\* The spans pushed for the token at an offset.
SpansAt(offset) == {i \in 1..Len(Spans) : Spans[i].offset = offset}

\* A record has a parameter named x: "$x" among its valueArgs or x among its
\* filterArgs.
HasParam(f, x) == InSeq(<<"$">> \o x, f.valueArgs) \/ InSeq(x, f.filterArgs)
IsBuiltin(x) == InSeq(x, BUILTINS)

Holders(functions, line) ==
    {f \in 1..Len(functions) : Contains(functions[f], line)}

FirstHolder(functions, line) ==
    IF Holders(functions, line) = {} THEN {}
    ELSE {SetMin(Holders(functions, line))}

\* The priority rule for the definitions a token is judged by: every holder
\* of its line, or the first one alone.
PriorityOver(functions, toks, firstOnly) ==
    \A t \in 1..Len(toks) :
        ~OnCommentLine(toks[t].offset) =>
            \A f \in (IF firstOnly
                      THEN FirstHolder(functions, TokenLine(toks[t].offset))
                      ELSE Holders(functions, TokenLine(toks[t].offset))) :
                (HasParam(functions[f], toks[t].word) /\ IsBuiltin(toks[t].word))
                    => \E i \in SpansAt(toks[t].offset) :
                           Spans[i].tokenType = "parameter"

\* C4 as claimed: a token that is not on a comment line, lies in the range of
\* a definition and is named like one of that definition's parameters and
\* like a built-in is classified parameter, for every definition whose range
\* holds the token's line, nested ones included.
C4_ParameterOfAnyHolder ==
    Tokenized => PriorityOver(JQParser_parse(text), TokensFrom(text, 1), FALSE)

\* C4 amended: the same for the enclosing definition alone, the first record
\* in list order whose range holds the token's line.
C4_ParameterOfEnclosing ==
    Tokenized => PriorityOver(JQParser_parse(text), TokensFrom(text, 1), TRUE)

C4_Case(functions, toks) ==
    \E t \in 1..Len(toks) :
        /\ ~OnCommentLine(toks[t].offset)
        /\ IsBuiltin(toks[t].word)
        /\ \E f \in FirstHolder(functions, TokenLine(toks[t].offset)) :
              /\ HasParam(functions[f], toks[t].word)
              /\ TokenLine(toks[t].offset) > functions[f].startLine
        /\ \E i \in SpansAt(toks[t].offset) : Spans[i].tokenType = "parameter"

\* A token in the body of its enclosing definition, named like a parameter of
\* it and like a built-in, classified parameter.
C4_Witness == Tokenized /\ C4_Case(JQParser_parse(text), TokensFrom(text, 1))

ShadowOver(functions, toks) ==
    \A t \in 1..Len(toks) :
        (\E f \in 1..Len(functions) : HasParam(functions[f], toks[t].word))
            => \A i \in SpansAt(toks[t].offset) : Spans[i].rule /= 3

\* C5: when some record of the document has a parameter named x, no token x
\* anywhere in the document is classified by the built-in rule.
C5_ShadowRule ==
    Tokenized => ShadowOver(JQParser_parse(text), TokensFrom(text, 1))

C5_Case(functions, toks) ==
    \E t \in 1..Len(toks) :
        /\ IsBuiltin(toks[t].word)
        /\ ~OnCommentLine(toks[t].offset)
        /\ Holders(functions, TokenLine(toks[t].offset)) = {}
        /\ \E f \in 1..Len(functions) : HasParam(functions[f], toks[t].word)
        /\ SpansAt(toks[t].offset) = {}

\* A built-in name outside every definition's range, off a comment line, that
\* is a parameter of some definition and gets no span.
C5_Witness == Tokenized /\ C5_Case(JQParser_parse(text), TokensFrom(text, 1))

CommentsOver(toks) ==
    \A t \in 1..Len(toks) :
        /\ JQParser_isInComment(text, toks[t].offset) <=> OnCommentLine(toks[t].offset)
        /\ OnCommentLine(toks[t].offset) => SpansAt(toks[t].offset) = {}

\* C6: isInComment is true of a token exactly when the first character of its
\* line that is not white space is "#", and no span is pushed for such a
\* token, whatever its text matches.
C6_CommentExclusion == Tokenized => CommentsOver(TokensFrom(text, 1))

C6_Case(functions, toks) ==
    /\ \E t \in 1..Len(toks) : toks[t].offset = 0
    /\ \E t \in 1..Len(toks) :
          /\ OnCommentLine(toks[t].offset)
          /\ LeadingWS(DocLine(TokenLine(toks[t].offset))) > 0
          /\ TokenLine(toks[t].offset) = NumLines - 1
          /\ IsBuiltin(toks[t].word)
          /\ \E f \in FirstHolder(functions, TokenLine(toks[t].offset)) :
                HasParam(functions[f], toks[t].word)
          /\ SpansAt(toks[t].offset) = {}

\* A document with carriage returns whose last line is an indented comment
\* inside a definition, holding a token named like a parameter of it and like
\* a built-in, with no span; and a token at offset 0.
C6_Witness ==
    Tokenized /\ eol = <<CR, LF>> /\ C6_Case(JQParser_parse(text), TokensFrom(text, 1))

-----------------------------------------------------------------------------
(* The completion provider's claims, checked under SpecComplete.           *)

Completed == response.request = "completion"
Items == response.value

\* The labels the list is to hold for a cursor on a line: the value
\* parameters of the enclosing definition, its filter parameters, the names
\* of the records named otherwise, the built-in names.
ExpectedLabels(functions, line) ==
    LET H == Holders(functions, line)
        Other(f) == H = {} \/ f.name /= functions[SetMin(H)].name
        others == SelectSeq(functions, Other)
    IN  (IF H = {} THEN <<>>
         ELSE functions[SetMin(H)].valueArgs \o functions[SetMin(H)].filterArgs)
        \o [k \in 1..Len(others) |-> others[k].name]
        \o BUILTINS

NumParams(functions, line) ==
    LET H == Holders(functions, line)
    IN  IF H = {} THEN 0
        ELSE Len(functions[SetMin(H)].valueArgs) + Len(functions[SetMin(H)].filterArgs)

ListAsClaimed(functions, line) ==
    /\ [k \in 1..Len(Items) |-> Items[k].label] = ExpectedLabels(functions, line)
    /\ \A k \in 1..Len(Items) :
          Items[k].kind = IF k <= NumParams(functions, line)
                          THEN "Variable" ELSE "Function"

\* C7 as claimed: for every document and cursor line the completion request
\* returns the value parameters of the enclosing definition, its filter
\* parameters, the records named otherwise and the built-in names, in this
\* order.
C7_CompletionOrder ==
    Completed =>
        /\ ~response.error
        /\ ListAsClaimed(JQParser_parse(text), response.position.line)

\* Whenever the request of C7 returns a list, the list is the claimed one.
CompletionOrderWhenReturned ==
    (Completed /\ ~response.error) =>
        ListAsClaimed(JQParser_parse(text), response.position.line)

\* C8: no request ends in an error, whatever the document and the cursor.
C8_NoErrorOutcome == response.request /= "none" => ~response.error

====
